---------------------------- MODULE Spec2Model ----------------------------
(***************************************************************************)
(* Model of the reddyt backend core:                                       *)
(*   - the run lifecycle of models/runs.rs (Run::update_state,             *)
(*     Run::set_error, RunState::next_state) together with the persisted   *)
(*     row of the `runs` table that the two methods write;                 *)
(*   - the authentication extractor of utils/extractors/authentication.rs, *)
(*     the two routes of routes/authentication.rs that use it, and         *)
(*     get_jwt_secret called by several threads at once;                   *)
(*   - the table of models/profile_overrides.rs and the calls on it        *)
(*     (ProfileOverrides::create, get, delete).                            *)
(***************************************************************************)
EXTENDS Integers, Sequences, FiniteSets, TLC

VARIABLES
    run,            \* the in-memory Run: [current_state, error]
    row,            \* the row of table `runs` with the run's id
    op,             \* the last method called on the run
    message,        \* the `message` argument of the last set_error call
    before,         \* the in-memory Run when the last call was made
    result,         \* what the last call returned
    query,          \* what became of the UPDATE the last call issued
    calls,          \* number of calls made so far
    advances,       \* number of update_state calls that returned Ok
    only_advances,  \* every call so far was an update_state that returned Ok
    first_error,    \* message of the first set_error call that returned Ok
    initial,        \* the Run as Run::create or Run::get returned it
    config,         \* ReddytConfig: [admin_email, admin_password]
    SECRET,         \* the OnceLock of get_jwt_secret: None or Some(secret)
    now,            \* Utc::now(), in seconds
    request,        \* the request being handled: None or Some(request)
    auth,           \* what the OptionalAuth extractor returned for it
    response,       \* what is answered to it
    logged_out,     \* whether a logout request was answered 204 since the start
    once,           \* the Once of the OnceLock SECRET
    pc,             \* where each thread is in get_jwt_secret
    seed,           \* the StdRng each thread made: None or Some(draw)
    path,           \* how the last call of each thread that returned Ok got the value
    returned,       \* what the calls of each thread have returned
    generated,      \* how many times the closure of get_or_init ran
    profile_overrides,  \* the ids of the rows of the table profile_overrides
    serial,         \* the next value of the sequence of the table's id column
    instances,      \* how many ProfileOverrides values the callers hold, by id
    overrides_call  \* the last call on ProfileOverrides: None or Some(what it did)

run_vars == <<run, row, op, message, before, result, query, calls, advances,
              only_advances, first_error, initial>>

thread_vars == <<pc, seed, path, returned, generated>>

auth_vars == <<config, SECRET, now, request, auth, response, logged_out, once,
               thread_vars>>

override_vars == <<profile_overrides, serial, instances, overrides_call>>

vars == <<run_vars, auth_vars, override_vars>>

-----------------------------------------------------------------------------
(* Bounds of the model *)

\* Calls made on one run.
MaxCalls == 10

\* Single-byte edits (a substitution, an insertion, a deletion) between the
\* administrator's credentials and the credentials a request submits.
MaxEdits == 1

\* Threads that call get_jwt_secret concurrently.
MaxThreads == 2

\* Rows ever inserted in the table profile_overrides.
MaxOverrides == 2

\* ProfileOverrides values of one id held at a time (loaded twice, or cloned).
MaxCopies == 2

-----------------------------------------------------------------------------
(* Option<String> *)

None == <<>>

Some(v) == <<v>>

\* The error messages a caller passes to set_error.
Messages == {"m1", "m2"}

-----------------------------------------------------------------------------
(* models/runs.rs *)

RunState == {"Error", "Idling", "GeneratingQuestion", "GeneratingAnswer",
             "RenderingVoice", "RenderingSubtitles", "DownloadingBackground",
             "ComposingVideo", "Uploading", "Done"}

RunError == {"QueryError", "FrozenState"}

\* A mutation of next_state: the finished state wraps around.
next_state_wraps(self) ==
    CASE self = "Error" -> "Error"
      [] self = "Idling" -> "GeneratingQuestion"
      [] self = "GeneratingQuestion" -> "GeneratingAnswer"
      [] self = "GeneratingAnswer" -> "RenderingVoice"
      [] self = "RenderingVoice" -> "RenderingSubtitles"
      [] self = "RenderingSubtitles" -> "DownloadingBackground"
      [] self = "DownloadingBackground" -> "ComposingVideo"
      [] self = "ComposingVideo" -> "Uploading"
      [] self = "Uploading" -> "Done"
      [] self = "Done" -> "Idling"

\* A mutation of next_state: two arms of the match swapped.
next_state_swapped(self) ==
    CASE self = "Error" -> "Error"
      [] self = "Idling" -> "GeneratingQuestion"
      [] self = "GeneratingQuestion" -> "GeneratingAnswer"
      [] self = "GeneratingAnswer" -> "RenderingSubtitles"
      [] self = "RenderingVoice" -> "RenderingVoice"
      [] self = "RenderingSubtitles" -> "DownloadingBackground"
      [] self = "DownloadingBackground" -> "ComposingVideo"
      [] self = "ComposingVideo" -> "Uploading"
      [] self = "Uploading" -> "Done"
      [] self = "Done" -> "Done"

\* RunState::next_state: the match of lines 125-141.
next_state(self) ==
    CASE self = "Error" -> "Error"
      [] self = "Idling" -> "GeneratingQuestion"
      [] self = "GeneratingQuestion" -> "GeneratingAnswer"
      [] self = "GeneratingAnswer" -> "RenderingVoice"
      [] self = "RenderingVoice" -> "RenderingSubtitles"
      [] self = "RenderingSubtitles" -> "DownloadingBackground"
      [] self = "DownloadingBackground" -> "ComposingVideo"
      [] self = "ComposingVideo" -> "Uploading"
      [] self = "Uploading" -> "Done"
      [] self = "Done" -> "Done"

\* A mutation of update_state_frozen: the guard is missing.
update_state_never_frozen(current_state) == FALSE

\* Run::update_state, lines 301-303: matches!(self.current_state, RunState::Error).
update_state_frozen(current_state) == current_state = "Error"

\* A mutation of set_error_frozen: Done is frozen too.
set_error_frozen_on_done(current_state) == current_state \in {"Error", "Done"}

\* Run::set_error, lines 341-343: matches!(self.current_state, RunState::Error).
set_error_frozen(current_state) == current_state = "Error"

\* The Run that Run::create returns: the row INSERT INTO runs (profile_id)
\* makes, with the columns' defaults.
created_run == [current_state |-> "Idling", error |-> None]

\* The rows Run::get can return: a run in any state of the run_state type,
\* with an error message when it is in the error state.
stored_runs ==
    {r \in [current_state : RunState, error : {None} \cup {Some(m) : m \in Messages}] :
        (r.current_state = "Error") <=> (r.error # None)}

\* Run::update_state. db_ok: whether the UPDATE of lines 308-318 succeeds.
update_state(db_ok) ==
    /\ calls < MaxCalls
    /\ op' = "update_state"
    /\ message' = None
    /\ before' = run
    /\ calls' = calls + 1
    /\ UNCHANGED initial
    /\ IF update_state_frozen(run.current_state)
       THEN \* return Err(RunError::FrozenState)
            /\ result' = "FrozenState"
            /\ query' = "none"
            /\ UNCHANGED <<run, row>>
       ELSE \* self.current_state.next_state() mutates the instance in place,
            \* before the query runs.
            /\ run' = [run EXCEPT !.current_state = next_state(run.current_state)]
            /\ IF db_ok
               THEN /\ row' = [row EXCEPT !.current_state = next_state(run.current_state)]
                    /\ query' = "executed"
                    /\ result' = "Ok"
               ELSE \* .await? returns Err(RunError::QueryError)
                    /\ row' = row
                    /\ query' = "failed"
                    /\ result' = "QueryError"
    /\ advances' = IF result' = "Ok" THEN advances + 1 ELSE advances
    /\ only_advances' = (only_advances /\ result' = "Ok")
    /\ UNCHANGED <<first_error, auth_vars, override_vars>>

\* Run::set_error. db_ok: whether the UPDATE of lines 345-355 succeeds.
set_error(msg, db_ok) ==
    /\ calls < MaxCalls
    /\ op' = "set_error"
    /\ message' = Some(msg)
    /\ before' = run
    /\ calls' = calls + 1
    /\ UNCHANGED initial
    /\ IF set_error_frozen(run.current_state)
       THEN \* return Err(RunError::FrozenState)
            /\ result' = "FrozenState"
            /\ query' = "none"
            /\ UNCHANGED <<run, row>>
       ELSE IF db_ok
            THEN \* UPDATE runs SET error = $2; then self.error = Some(message).
                 \* Neither the row's nor the instance's current_state is written.
                 /\ row' = [row EXCEPT !.error = Some(msg)]
                 /\ run' = [run EXCEPT !.error = Some(msg)]
                 /\ query' = "executed"
                 /\ result' = "Ok"
            ELSE \* .await? returns Err(RunError::QueryError)
                 /\ UNCHANGED <<run, row>>
                 /\ query' = "failed"
                 /\ result' = "QueryError"
    /\ first_error' = IF result' = "Ok" /\ first_error = None
                      THEN Some(msg) ELSE first_error
    /\ only_advances' = FALSE
    /\ UNCHANGED <<advances, auth_vars, override_vars>>

\* The run a worker holds: one Run::create made, or one Run::get loaded.
InitRun ==
    /\ run \in {created_run} \cup stored_runs
    /\ row = run
    /\ op = "none"
    /\ message = None
    /\ before = run
    /\ result = "none"
    /\ query = "none"
    /\ calls = 0
    /\ advances = 0
    /\ only_advances = TRUE
    /\ first_error = None
    /\ initial = run

NextRun ==
    \/ \E db_ok \in BOOLEAN : update_state(db_ok)
    \/ \E msg \in Messages, db_ok \in BOOLEAN : set_error(msg, db_ok)


-----------------------------------------------------------------------------
(* Text: a string is the sequence of its bytes *)

\* "Basic "
BASIC_PREFIX == <<66, 97, 115, 105, 99, 32>>

\* "Bearer "
BEARER_PREFIX == <<66, 101, 97, 114, 101, 114, 32>>

\* ':'
COLON == 58

\* '='
PAD == 61

\* str::strip_prefix: the text after the prefix, or None.
strip_prefix(text, prefix) ==
    IF Len(text) >= Len(prefix) /\ SubSeq(text, 1, Len(prefix)) = prefix
    THEN Some(SubSeq(text, Len(prefix) + 1, Len(text)))
    ELSE None

\* The index of the first occurrence of byte c in text, 0 when there is none.
RECURSIVE find(_, _, _)
find(text, c, i) ==
    IF i > Len(text) THEN 0
    ELSE IF text[i] = c THEN i
    ELSE find(text, c, i + 1)

\* A mutation of split_once: the text is split at the last occurrence of the
\* delimiter, as str::rsplit_once does.
rsplit_once(text, c) ==
    LET at == {i \in 1..Len(text) : text[i] = c}
        i == IF at = {} THEN 0 ELSE CHOOSE j \in at : \A k \in at : k <= j
    IN  IF i = 0 THEN None
        ELSE Some(<<SubSeq(text, 1, i - 1), SubSeq(text, i + 1, Len(text))>>)

\* str::split_once: the text before and the text after the first occurrence
\* of the delimiter, or None when the delimiter does not occur.
split_once(text, c) ==
    LET i == find(text, c, 1)
    IN  IF i = 0 THEN None
        ELSE Some(<<SubSeq(text, 1, i - 1), SubSeq(text, i + 1, Len(text))>>)

\* HeaderValue::to_str succeeds on visible ASCII (and tab) only.
to_str_ok(bytes) ==
    \A i \in 1..Len(bytes) : (bytes[i] >= 32 /\ bytes[i] < 127) \/ bytes[i] = 9

\* Whether b is a UTF-8 continuation byte within lo..hi.
cont(bytes, i, lo, hi) == i <= Len(bytes) /\ bytes[i] >= lo /\ bytes[i] <= hi

\* String::from_utf8 succeeds: the bytes from index i on are well-formed UTF-8.
RECURSIVE utf8_from(_, _)
utf8_from(bytes, i) ==
    IF i > Len(bytes) THEN TRUE
    ELSE LET b == bytes[i] IN
         IF b < 128 THEN utf8_from(bytes, i + 1)
         ELSE IF b >= 194 /\ b <= 223
              THEN cont(bytes, i + 1, 128, 191) /\ utf8_from(bytes, i + 2)
         ELSE IF b >= 224 /\ b <= 239
              THEN /\ cont(bytes, i + 1, IF b = 224 THEN 160 ELSE 128,
                                         IF b = 237 THEN 159 ELSE 191)
                   /\ cont(bytes, i + 2, 128, 191)
                   /\ utf8_from(bytes, i + 3)
         ELSE IF b >= 240 /\ b <= 244
              THEN /\ cont(bytes, i + 1, IF b = 240 THEN 144 ELSE 128,
                                         IF b = 244 THEN 143 ELSE 191)
                   /\ cont(bytes, i + 2, 128, 191)
                   /\ cont(bytes, i + 3, 128, 191)
                   /\ utf8_from(bytes, i + 4)
         ELSE FALSE

from_utf8_ok(bytes) == utf8_from(bytes, 1)

-----------------------------------------------------------------------------
(* base64::prelude::BASE64_STANDARD *)

\* The character of a 6-bit value in the standard alphabet.
b64_char(v) ==
    IF v < 26 THEN 65 + v
    ELSE IF v < 52 THEN 97 + (v - 26)
    ELSE IF v < 62 THEN 48 + (v - 52)
    ELSE IF v = 62 THEN 43 ELSE 47

\* The 6-bit value of a character of the standard alphabet, -1 for any other.
b64_value(c) ==
    IF c >= 65 /\ c <= 90 THEN c - 65
    ELSE IF c >= 97 /\ c <= 122 THEN c - 97 + 26
    ELSE IF c >= 48 /\ c <= 57 THEN c - 48 + 52
    ELSE IF c = 43 THEN 62
    ELSE IF c = 47 THEN 63
    ELSE -1

\* Engine::encode, with padding.
RECURSIVE b64_encode(_)
b64_encode(bytes) ==
    IF Len(bytes) = 0 THEN <<>>
    ELSE IF Len(bytes) = 1
         THEN <<b64_char(bytes[1] \div 4), b64_char((bytes[1] % 4) * 16), PAD, PAD>>
    ELSE IF Len(bytes) = 2
         THEN <<b64_char(bytes[1] \div 4),
                b64_char((bytes[1] % 4) * 16 + bytes[2] \div 16),
                b64_char((bytes[2] % 16) * 4), PAD>>
    ELSE <<b64_char(bytes[1] \div 4),
           b64_char((bytes[1] % 4) * 16 + bytes[2] \div 16),
           b64_char((bytes[2] % 16) * 4 + bytes[3] \div 64),
           b64_char(bytes[3] % 64)>>
         \o b64_encode(SubSeq(bytes, 4, Len(bytes)))

\* Whether the quantum text[i..i+3] decodes: four characters of the alphabet,
\* or, in the last quantum only, canonical padding with zero trailing bits.
b64_quantum_ok(text, i) ==
    LET a == b64_value(text[i])
        b == b64_value(text[i + 1])
        c == b64_value(text[i + 2])
        d == b64_value(text[i + 3])
        last == (i + 3 = Len(text))
    IN  /\ a >= 0
        /\ b >= 0
        /\ \/ c >= 0 /\ d >= 0
           \/ last /\ c >= 0 /\ text[i + 3] = PAD /\ c % 4 = 0
           \/ last /\ text[i + 2] = PAD /\ text[i + 3] = PAD /\ b % 16 = 0

\* The bytes of the quantum text[i..i+3].
b64_quantum(text, i) ==
    LET a == b64_value(text[i])
        b == b64_value(text[i + 1])
        c == b64_value(text[i + 2])
        d == b64_value(text[i + 3])
    IN  IF text[i + 2] = PAD THEN <<a * 4 + b \div 16>>
        ELSE IF text[i + 3] = PAD
             THEN <<a * 4 + b \div 16, (b % 16) * 16 + c \div 4>>
        ELSE <<a * 4 + b \div 16, (b % 16) * 16 + c \div 4, (c % 4) * 64 + d>>

\* A mutation of b64_decode: missing padding is tolerated.
b64_decode_unpadded(text) ==
    LET padded == IF Len(text) % 4 = 2 THEN text \o <<PAD, PAD>>
                  ELSE IF Len(text) % 4 = 3 THEN text \o <<PAD>>
                  ELSE text
    IN
    IF Len(padded) % 4 # 0 THEN None
    ELSE IF \E q \in 0..(Len(padded) \div 4 - 1) : ~b64_quantum_ok(padded, 4 * q + 1)
         THEN None
    ELSE LET RECURSIVE bytes_from(_)
             bytes_from(i) ==
                 IF i > Len(padded) THEN <<>>
                 ELSE b64_quantum(padded, i) \o bytes_from(i + 4)
         IN  Some(bytes_from(1))

\* Engine::decode: Some(bytes), or None for a DecodeError (a character outside
\* the alphabet, a length that is no multiple of four, misplaced or missing
\* padding, non-zero trailing bits).
b64_decode(text) ==
    IF Len(text) % 4 # 0 THEN None
    ELSE IF \E q \in 0..(Len(text) \div 4 - 1) : ~b64_quantum_ok(text, 4 * q + 1)
         THEN None
    ELSE LET RECURSIVE bytes_from(_)
             bytes_from(i) ==
                 IF i > Len(text) THEN <<>>
                 ELSE b64_quantum(text, i) \o bytes_from(i + 4)
         IN  Some(bytes_from(1))

-----------------------------------------------------------------------------
(* Strings that may hold a JSON Web Token *)

\* A string: `text` followed, when jwt is Some(t), by the compact
\* serialisation of the token t.  A serialised token is ASCII, starts with
\* "eyJ" and holds two '.' characters, which no text of the model does.
Str(text, jwt) == [text |-> text, jwt |-> jwt]

Plain(text) == Str(text, None)

\* str::strip_prefix on such a string.  The prefixes used end in a space, so
\* they match within `text` or not at all.
str_strip_prefix(s, prefix) ==
    IF strip_prefix(s.text, prefix) = None THEN None
    ELSE Some(Str(strip_prefix(s.text, prefix)[1], s.jwt))

\* BASE64_STANDARD.decode on such a string: '.' is outside the alphabet.
str_b64_decode(s) == IF s.jwt # None THEN None ELSE b64_decode(s.text)

-----------------------------------------------------------------------------
(* utils/extractors/authentication.rs *)

COOKIE_KEY == "authentication"

AUTH_EXPIRATION_HOURS == 3

\* Duration::hours(AUTH_EXPIRATION_HOURS), in seconds.
auth_expiration == AUTH_EXPIRATION_HOURS * 3600

\* Validation::new(Algorithm::HS256) keeps jsonwebtoken's default leeway, in
\* seconds.
VALIDATION_LEEWAY == 60

\* Result<T, OptionalAuthError>
Ok(v) == [tag |-> "Ok", val |-> v]

Err(e) == [tag |-> "Err", val |-> e]

\* OptionalAuth::unauthenticated
unauthenticated == [token |-> None]

\* OptionalAuth::authenticated
authenticated(token) == [token |-> Some(token)]

\* OptionalAuth::is_authenticated
is_authenticated(a) == a.token # None

\* Alphanumeric.sample_string(&mut rng, len): the rng decides the characters.
sample_string(rng, len) == [i \in 1..len |-> rng]

\* The HMAC-SHA256 of the signing input (header and claims) under a key: equal
\* for equal inputs and keys only.
hmac(alg, claims, key) == [alg |-> alg, claims |-> claims, key |-> key]

\* jsonwebtoken::encode(&Header::default(), claims, key): an HS256 token.
jwt_encode(claims, key) ==
    Str(<<>>, Some([alg |-> "HS256", claims |-> claims,
                    mac |-> hmac("HS256", claims, key)]))

\* A mutation of jwt_decode: the signature is not verified.
jwt_decode_unverified(s, key, time) ==
    IF s.text # <<>> \/ s.jwt = None THEN None
    ELSE LET t == s.jwt[1] IN
         IF t.alg # "HS256" THEN None
         ELSE IF t.claims.exp < time - VALIDATION_LEEWAY THEN None
         ELSE Some(t.claims)

\* jsonwebtoken::decode(token, key, &Validation::new(Algorithm::HS256)) at
\* time `time`: Some(claims), or None for any error (not a token, another
\* algorithm, a signature that does not verify, an expired token).
jwt_decode(s, key, time) ==
    IF s.text # <<>> \/ s.jwt = None THEN None
    ELSE LET t == s.jwt[1] IN
         IF t.alg # "HS256" THEN None
         ELSE IF t.mac # hmac(t.alg, t.claims, key) THEN None
         ELSE IF t.claims.exp < time - VALIDATION_LEEWAY THEN None
         ELSE Some(t.claims)

\* get_jwt_secret.  os_rng_ok: whether StdRng::try_from_rng(&mut OsRng)
\* succeeds, which every call tries before it reads SECRET; rng: the
\* characters the generator would draw.  Yields the result and the new
\* content of the OnceLock.
get_jwt_secret(secret, os_rng_ok, rng) ==
    IF ~os_rng_ok
    THEN [ret |-> Err("JwtSecret"), secret |-> secret]
    ELSE IF secret = None
         THEN [ret |-> Ok(sample_string(rng, 32)),
               secret |-> Some(sample_string(rng, 32))]
         ELSE [ret |-> Ok(secret[1]), secret |-> secret]

\* A mutation of credentials_match: the email is compared ignoring case
\* (ASCII), the password ignoring surrounding spaces.
lower(text) ==
    [i \in 1..Len(text) |->
        IF text[i] >= 65 /\ text[i] <= 90 THEN text[i] + 32 ELSE text[i]]

RECURSIVE trim(_)
trim(text) ==
    IF Len(text) = 0 THEN text
    ELSE IF text[1] = 32 THEN trim(Tail(text))
    ELSE IF text[Len(text)] = 32 THEN trim(SubSeq(text, 1, Len(text) - 1))
    ELSE text

credentials_match_normalised(email_cred, password_cred, admin_email, admin_password) ==
    lower(email_cred) = lower(admin_email) /\ trim(password_cred) = trim(admin_password)

\* try_authenticate_basic, line 235, negated:
\* email_cred != admin_email || password_cred != admin_password.
credentials_match(email_cred, password_cred, admin_email, admin_password) ==
    ~(email_cred # admin_email \/ password_cred # admin_password)

\* A mutation of expiration_of: the expiry is in minutes.
expiration_in_minutes(time) == time + AUTH_EXPIRATION_HOURS * 60

\* try_authenticate_basic, lines 243-246: the timestamp of
\* Utc::now() + Duration::hours(AUTH_EXPIRATION_HOURS).  The sum of the
\* current time and three hours is within chrono's range, so
\* checked_add_signed yields Some.
expiration_of(time) == time + auth_expiration

\* try_authenticate_basic.  Yields the result and the new content of SECRET.
try_authenticate_basic(user_credentials, admin_email, admin_password, secret, time, os_rng_ok, rng) ==
    LET decoded_bytes == str_b64_decode(user_credentials)
        rejected == [ret |-> Ok(unauthenticated), secret |-> secret]
    IN
    IF decoded_bytes = None THEN rejected
    ELSE IF ~from_utf8_ok(decoded_bytes[1]) THEN rejected
    ELSE LET split == split_once(decoded_bytes[1], COLON) IN
    IF split = None THEN rejected
    ELSE IF ~credentials_match(split[1][1], split[1][2], admin_email, admin_password)
         THEN rejected
    ELSE LET expiration == expiration_of(time) IN
    \* exp: expiration.try_into(): i64 -> usize
    IF expiration < 0 THEN [ret |-> Err("InvalidCast"), secret |-> secret]
    ELSE LET jwt_claims == [email |-> admin_email, exp |-> expiration]
             key == get_jwt_secret(secret, os_rng_ok, rng)
         IN
         IF key.ret.tag = "Err" THEN key
         ELSE [ret |-> Ok(authenticated(jwt_encode(jwt_claims, key.ret.val))),
               secret |-> key.secret]

\* A mutation of try_authenticate_bearer: a verified token is answered with a
\* token issued anew, expiring three hours from now.
try_authenticate_bearer_reissues(token, admin_email, secret, time, os_rng_ok, rng) ==
    LET key == get_jwt_secret(secret, os_rng_ok, rng) IN
    IF key.ret.tag = "Err" THEN key
    ELSE LET decode_result == jwt_decode(token, key.ret.val, time) IN
         IF decode_result = None
         THEN [ret |-> Ok(unauthenticated), secret |-> key.secret]
         ELSE IF decode_result[1].email # admin_email
              THEN [ret |-> Ok(unauthenticated), secret |-> key.secret]
         ELSE [ret |-> Ok(authenticated(jwt_encode(
                          [email |-> admin_email, exp |-> expiration_of(time)],
                          key.ret.val))),
               secret |-> key.secret]

\* try_authenticate_bearer.  Yields the result and the new content of SECRET.
try_authenticate_bearer(token, admin_email, secret, time, os_rng_ok, rng) ==
    LET key == get_jwt_secret(secret, os_rng_ok, rng) IN
    IF key.ret.tag = "Err" THEN key
    ELSE LET decode_result == jwt_decode(token, key.ret.val, time) IN
         IF decode_result = None
         THEN [ret |-> Ok(unauthenticated), secret |-> key.secret]
         ELSE IF decode_result[1].email # admin_email
              THEN [ret |-> Ok(unauthenticated), secret |-> key.secret]
         ELSE [ret |-> Ok(authenticated(token)), secret |-> key.secret]

\* A mutation of try_authenticate: when the header's credentials are
\* rejected, the cookie is tried.
try_authenticate_cookie_fallback(req, app_data, secret, time, os_rng_ok, rng) ==
    IF app_data = None
    THEN [ret |-> Err("MissingContext"), secret |-> secret]
    ELSE
    LET admin_email == app_data[1].admin_email
        admin_password == app_data[1].admin_password
        header_credentials ==
            IF req.authorization # None /\ to_str_ok(req.authorization[1].text)
            THEN req.authorization ELSE None
        basic == IF header_credentials = None THEN None
                 ELSE str_strip_prefix(header_credentials[1], BASIC_PREFIX)
        bearer == IF header_credentials = None THEN None
                  ELSE str_strip_prefix(header_credentials[1], BEARER_PREFIX)
        by_header ==
            IF basic # None
            THEN try_authenticate_basic(basic[1], admin_email, admin_password,
                                        secret, time, os_rng_ok, rng)
            ELSE IF bearer # None
            THEN try_authenticate_bearer(bearer[1], admin_email, secret, time,
                                         os_rng_ok, rng)
            ELSE [ret |-> Ok(unauthenticated), secret |-> secret]
    IN
    IF by_header.ret = Ok(unauthenticated) /\ req.cookie # None
    THEN try_authenticate_bearer(req.cookie[1], admin_email,
                                 by_header.secret, time, os_rng_ok, rng)
    ELSE by_header

\* A mutation of try_authenticate: the cookie is read only when the request
\* has no Authorization header.
try_authenticate_cookie_without_header(req, app_data, secret, time, os_rng_ok, rng) ==
    IF app_data = None
    THEN [ret |-> Err("MissingContext"), secret |-> secret]
    ELSE
    LET admin_email == app_data[1].admin_email
        admin_password == app_data[1].admin_password
        header_credentials ==
            IF req.authorization # None /\ to_str_ok(req.authorization[1].text)
            THEN req.authorization ELSE None
        basic == IF header_credentials = None THEN None
                 ELSE str_strip_prefix(header_credentials[1], BASIC_PREFIX)
        bearer == IF header_credentials = None THEN None
                  ELSE str_strip_prefix(header_credentials[1], BEARER_PREFIX)
    IN
    IF basic # None
    THEN try_authenticate_basic(basic[1], admin_email, admin_password,
                                secret, time, os_rng_ok, rng)
    ELSE IF bearer # None
    THEN try_authenticate_bearer(bearer[1], admin_email, secret, time, os_rng_ok, rng)
    ELSE IF req.authorization = None /\ req.cookie # None
    THEN try_authenticate_bearer(req.cookie[1], admin_email,
                                 secret, time, os_rng_ok, rng)
    ELSE [ret |-> Ok(unauthenticated), secret |-> secret]

\* try_authenticate.  req: [authorization, cookie], each None or Some(string);
\* app_data: None or Some(configuration).
try_authenticate(req, app_data, secret, time, os_rng_ok, rng) ==
    IF app_data = None
    THEN [ret |-> Err("MissingContext"), secret |-> secret]
    ELSE
    LET admin_email == app_data[1].admin_email
        admin_password == app_data[1].admin_password
        header_credentials ==
            IF req.authorization # None /\ to_str_ok(req.authorization[1].text)
            THEN req.authorization ELSE None
        basic == IF header_credentials = None THEN None
                 ELSE str_strip_prefix(header_credentials[1], BASIC_PREFIX)
        bearer == IF header_credentials = None THEN None
                  ELSE str_strip_prefix(header_credentials[1], BEARER_PREFIX)
        cookie_credentials == req.cookie
    IN
    IF basic # None
    THEN try_authenticate_basic(basic[1], admin_email, admin_password,
                                secret, time, os_rng_ok, rng)
    ELSE IF bearer # None
    THEN try_authenticate_bearer(bearer[1], admin_email, secret, time, os_rng_ok, rng)
    ELSE IF cookie_credentials # None
    THEN try_authenticate_bearer(cookie_credentials[1], admin_email,
                                 secret, time, os_rng_ok, rng)
    ELSE [ret |-> Ok(unauthenticated), secret |-> secret]

-----------------------------------------------------------------------------
(* routes/authentication.rs *)

\* A mutation of login_response: a session cookie, without Max-Age.
login_response_session_cookie(a) ==
    IF a.token # None
    THEN [status |-> 204,
          cookie |-> Some([name |-> COOKIE_KEY, value |-> a.token[1],
                           path |-> Some("/"), http_only |-> TRUE,
                           secure |-> "cfg!(not(debug_assertions))", max_age |-> None])]
    ELSE [status |-> 401, cookie |-> None]

\* login_route: the response for an extracted OptionalAuth.  The cookie is
\* secure where cfg!(not(debug_assertions)) holds, which the build decides.
login_response(a) ==
    IF a.token # None
    THEN [status |-> 204,
          cookie |-> Some([name |-> COOKIE_KEY, value |-> a.token[1],
                           path |-> Some("/"), http_only |-> TRUE,
                           secure |-> "cfg!(not(debug_assertions))", max_age |-> Some(3 * 3600)])]
    ELSE [status |-> 401, cookie |-> None]

\* A mutation of logout_response: the cookie is removed whether or not the
\* request is authenticated.
logout_response_unchecked(a) ==
    [status |-> 204,
     cookie |-> Some([name |-> COOKIE_KEY, value |-> Plain(<<>>),
                      path |-> None, http_only |-> FALSE,
                      secure |-> "false", max_age |-> Some(0)])]

\* logout_route: the response for an extracted OptionalAuth.  Cookie::named
\* followed by make_removal: an empty value that expires at once.
logout_response(a) ==
    IF a.token # None
    THEN [status |-> 204,
          cookie |-> Some([name |-> COOKIE_KEY, value |-> Plain(<<>>),
                           path |-> None, http_only |-> FALSE,
                           secure |-> "false", max_age |-> Some(0)])]
    ELSE [status |-> 401, cookie |-> None]

-----------------------------------------------------------------------------
(* The requests of the model *)

\* The configurations: RYT_ADMIN_EMAIL is "a@b", which load_validated
\* accepts; RYT_ADMIN_PASSWORD is "b" or "b:a".
Configs == {[admin_email |-> <<97, 64, 98>>, admin_password |-> <<98>>],
            [admin_email |-> <<97, 64, 98>>, admin_password |-> <<98, 58, 97>>]}

\* Configurations with a colon in a field: in the password "b:a", or in the
\* email, whose local part is the quoted string ":" ("\":\"@b").
ColonConfigs == {[admin_email |-> <<97, 64, 98>>, admin_password |-> <<98, 58, 97>>],
                 [admin_email |-> <<34, 58, 34, 64, 98>>, admin_password |-> <<98>>]}

\* "email:password" of the configuration.
admin_credentials(c) == c.admin_email \o <<COLON>> \o c.admin_password

\* The bytes an edit puts in: 'A', 'a', ':', ' ' and 0xFF.
EditBytes == {65, 97, COLON, 32, 255}

\* The texts one edit away from a text of S, and those of S.
edits(S) ==
    S \cup UNION {
        {[t EXCEPT ![i] = c] : i \in 1..Len(t), c \in EditBytes}
        \cup {SubSeq(t, 1, i) \o <<c>> \o SubSeq(t, i + 1, Len(t)) :
                 i \in 0..Len(t), c \in EditBytes}
        \cup {SubSeq(t, 1, i - 1) \o SubSeq(t, i + 1, Len(t)) : i \in 1..Len(t)}
        : t \in S}

RECURSIVE within(_, _)
within(S, n) == IF n = 0 THEN S ELSE within(edits(S), n - 1)

\* The credentials requests submit in a Basic header.
Submitted(c) == within({admin_credentials(c)}, MaxEdits)

\* Remainders of a Basic header that are not base64: "not-base64!!", "YQ"
\* (padding missing), "YR==" (trailing bits), "Y=Q=" (padding misplaced).
NotBase64 == {<<110, 111, 116, 45, 98, 97, 115, 101, 54, 52, 33, 33>>,
              <<89, 81>>, <<89, 82, PAD, PAD>>, <<89, PAD, 81, PAD>>}

\* A base64 text without its padding.
RECURSIVE unpadded(_)
unpadded(text) ==
    IF Len(text) > 0 /\ text[Len(text)] = PAD
    THEN unpadded(SubSeq(text, 1, Len(text) - 1))
    ELSE text

\* What the generator can draw: every character 'a', or every character 'b'.
RngDraws == {97, 98}

\* The instants the clock shows: a first one, and those around the expiry of
\* a token issued at the first one.
ClockInstants == {0, auth_expiration - 1, auth_expiration,
                  auth_expiration + VALIDATION_LEEWAY,
                  auth_expiration + VALIDATION_LEEWAY + 1}

\* The claims of the tokens requests present: the administrator's email
\* ("a@b") or another ("b@b"), expiring three hours after an instant.
PresentedClaims ==
    [email : {<<97, 64, 98>>, <<98, 64, 98>>},
     exp : {t + auth_expiration : t \in ClockInstants}]

\* The tokens requests present: signed under either key the generator can
\* make; some with claims altered after signing, some of another algorithm.
PresentedTokens ==
    {[alg |-> "HS256", claims |-> c, mac |-> hmac("HS256", c, sample_string(r, 32))] :
        c \in PresentedClaims, r \in RngDraws}
    \cup {[alg |-> "HS256", claims |-> c, mac |-> hmac("HS256", d, sample_string(r, 32))] :
        c \in PresentedClaims,
        d \in {x \in PresentedClaims : x.exp = auth_expiration},
        r \in RngDraws}
    \cup {[alg |-> "HS384", claims |-> c, mac |-> hmac("HS384", c, sample_string(r, 32))] :
        c \in {x \in PresentedClaims : x.exp = 2 * auth_expiration},
        r \in RngDraws}

\* The tokens the cookie holds: those that expire three hours after the first
\* instant, unaltered.
CookieTokens ==
    {t \in PresentedTokens :
        t.alg = "HS256" /\ t.claims.exp = auth_expiration
        /\ t.mac.claims = t.claims}

\* The Authorization headers sent with any cookie: none, the administrator's
\* credentials, ill-formed credentials, tokens, and values of no scheme
\* ("basic " in lower case, "Basic" and "Bearer" without the space, a bare
\* token, a byte that is not visible ASCII).  The ill-formed credentials
\* include the administrator's with the padding of the base64 left out, and
\* "Basic " followed by the byte 0xFF, which a header value may hold.
Headers(c) ==
    {None, Some(Plain(BASIC_PREFIX \o b64_encode(admin_credentials(c))))}
    \cup {Some(Plain(BASIC_PREFIX \o t)) : t \in NotBase64}
    \cup {Some(Plain(BASIC_PREFIX \o unpadded(b64_encode(admin_credentials(c))))),
          Some(Plain(BASIC_PREFIX \o <<255>>))}
    \cup {Some(Plain(BASIC_PREFIX \o b64_encode(t))) :
             t \in {<<>>, <<195, 169, COLON, 98>>, <<195, COLON, 98>>}}
    \cup {Some(Str(BEARER_PREFIX, Some(t))) : t \in PresentedTokens}
    \cup {Some(Plain(BEARER_PREFIX \o t)) : t \in {<<>>, <<120>>}}
    \cup {Some(Plain(<<98>> \o Tail(BASIC_PREFIX) \o b64_encode(admin_credentials(c)))),
          Some(Plain(SubSeq(BASIC_PREFIX, 1, 5) \o b64_encode(admin_credentials(c)))),
          Some(Plain(<<233>> \o BASIC_PREFIX \o b64_encode(admin_credentials(c)))),
          Some(Plain(<<120>>))}
    \cup {Some(Str(SubSeq(BEARER_PREFIX, 1, 6), Some(t))) : t \in CookieTokens}
    \cup {Some(Str(<<>>, Some(t))) : t \in CookieTokens}

\* The values of the cookie named COOKIE_KEY: absent, a token, no token.
Cookies ==
    {None, Some(Plain(<<120>>))} \cup {Some(Str(<<>>, Some(t))) : t \in CookieTokens}

\* The requests sent at an instant: a request to either route with any
\* header of Headers and any cookie, at every instant; a login with submitted
\* credentials in a Basic header at the first instant (try_authenticate_basic
\* reads the clock at line 243 only, after the comparison of line 235).
Requests(c, time) ==
    {[route |-> "login", authorization |-> Some(Plain(BASIC_PREFIX \o b64_encode(t))),
      cookie |-> None] : t \in IF time = 0 THEN Submitted(c) ELSE {}}
    \cup [route : {"login", "logout"}, authorization : Headers(c), cookie : Cookies]

-----------------------------------------------------------------------------
(* get_jwt_secret called by several threads *)

\* The threads of the server that handle requests.
Threads == 1..MaxThreads

\* A mutation of once_claimable: a thread that finds the Once not complete
\* runs the closure, also when another thread is running it.
once_claimable_unguarded(state) == state # "complete"

\* Once::call_once_force within OnceLock::get_or_init (lines 141-146): the
\* thread that finds the Once incomplete sets it running and runs the closure.
once_claimable(state) == state = "incomplete"

\* The frame of a step of get_jwt_secret.
get_jwt_secret_frame ==
    UNCHANGED <<config, now, request, auth, response, logged_out, run_vars, override_vars>>

\* Line 138: StdRng::try_from_rng(&mut OsRng)?, which returns the error when
\* the operating system's source fails.
try_from_rng(t, os_rng_ok, rng) ==
    /\ pc[t] = "idle"
    /\ IF os_rng_ok
       THEN /\ seed' = [seed EXCEPT ![t] = Some(rng)]
            /\ pc' = [pc EXCEPT ![t] = "get_or_init"]
            /\ UNCHANGED returned
       ELSE /\ returned' = [returned EXCEPT ![t] = @ \cup {Err("JwtSecret")}]
            /\ UNCHANGED <<seed, pc>>
    /\ UNCHANGED <<SECRET, once, path, generated>>
    /\ get_jwt_secret_frame

\* The call of thread t returns Ok(&SECRET's value), got the way `how`.
returns_secret(t, how) ==
    /\ returned' = [returned EXCEPT ![t] = @ \cup {Ok(SECRET[1])}]
    /\ path' = [path EXCEPT ![t] = how]
    /\ pc' = [pc EXCEPT ![t] = "idle"]
    /\ seed' = [seed EXCEPT ![t] = None]
    /\ UNCHANGED <<SECRET, once, generated>>
    /\ get_jwt_secret_frame

\* get_or_init finds the OnceLock initialised and returns its value.
get(t) ==
    /\ pc[t] = "get_or_init"
    /\ once = "complete"
    /\ returns_secret(t, "get")

\* get_or_init finds the Once incomplete: the thread is the one to run the
\* closure.
call_once(t) ==
    /\ pc[t] = "get_or_init"
    /\ once_claimable(once)
    /\ once' = "running"
    /\ pc' = [pc EXCEPT ![t] = "closure"]
    /\ UNCHANGED <<SECRET, seed, path, returned, generated>>
    /\ get_jwt_secret_frame

\* get_or_init finds the Once running: the thread blocks until it completes.
wait(t) ==
    /\ pc[t] = "get_or_init"
    /\ once = "running"
    /\ pc' = [pc EXCEPT ![t] = "waiting"]
    /\ UNCHANGED <<SECRET, once, seed, path, returned, generated>>
    /\ get_jwt_secret_frame

\* The closure of lines 142-145 runs with the thread's generator; its value
\* is stored and the Once completes.
closure(t) ==
    /\ pc[t] = "closure"
    /\ SECRET' = Some(sample_string(seed[t][1], 32))
    /\ once' = "complete"
    /\ generated' = generated + 1
    /\ pc' = [pc EXCEPT ![t] = "initialized"]
    /\ UNCHANGED <<seed, path, returned>>
    /\ get_jwt_secret_frame

\* The thread that ran the closure returns the value of the OnceLock.
get_unchecked(t) ==
    /\ pc[t] = "initialized"
    /\ returns_secret(t, "closure")

\* A blocked thread is woken when the Once is complete, and returns the
\* value of the OnceLock.
wake(t) ==
    /\ pc[t] = "waiting"
    /\ once = "complete"
    /\ returns_secret(t, "wait")

NextSecret ==
    \/ \E t \in Threads, os_rng_ok \in BOOLEAN, rng \in RngDraws :
          try_from_rng(t, os_rng_ok, rng)
    \/ \E t \in Threads : get(t)
    \/ \E t \in Threads : call_once(t)
    \/ \E t \in Threads : wait(t)
    \/ \E t \in Threads : closure(t)
    \/ \E t \in Threads : get_unchecked(t)
    \/ \E t \in Threads : wake(t)

-----------------------------------------------------------------------------
(* Handling a request *)

\* <OptionalAuth as FromRequest>::from_request for an incoming request:
\* ready(try_authenticate(req)).  main registers the application context
\* with App::app_data, so the context is there.
from_request(req, os_rng_ok, rng) ==
    /\ request = None
    /\ LET r == try_authenticate(req, Some(config), SECRET, now, os_rng_ok, rng) IN
       /\ auth' = Some(r.ret)
       /\ SECRET' = r.secret
       /\ once' = IF r.secret # None THEN "complete" ELSE once
    /\ request' = Some(req)
    /\ response' = None
    /\ UNCHANGED <<config, now, thread_vars, logged_out, run_vars, override_vars>>

\* login_route, called with the extracted OptionalAuth.
login_route ==
    /\ request # None /\ request[1].route = "login"
    /\ auth # None /\ auth[1].tag = "Ok"
    /\ response = None
    /\ response' = Some(login_response(auth[1].val))
    /\ UNCHANGED <<config, SECRET, now, request, auth, once, thread_vars, logged_out, run_vars, override_vars>>

\* logout_route, called with the extracted OptionalAuth.
logout_route ==
    /\ request # None /\ request[1].route = "logout"
    /\ auth # None /\ auth[1].tag = "Ok"
    /\ response = None
    /\ response' = Some(logout_response(auth[1].val))
    /\ logged_out' = (logged_out \/ logout_response(auth[1].val).status = 204)
    /\ UNCHANGED <<config, SECRET, now, request, auth, once, thread_vars, run_vars, override_vars>>

\* The extractor returned an OptionalAuthError: the route is not called, and
\* the error's ErrorResponse, which names no status code, is the response.
error_response ==
    /\ auth # None /\ auth[1].tag = "Err"
    /\ response = None
    /\ response' = Some([status |-> 500, cookie |-> None])
    /\ UNCHANGED <<config, SECRET, now, request, auth, once, thread_vars, logged_out, run_vars, override_vars>>

\* The response is sent; nothing of the request is kept.
finish ==
    /\ response # None
    /\ request' = None
    /\ auth' = None
    /\ response' = None
    /\ UNCHANGED <<config, SECRET, now, once, thread_vars, logged_out, run_vars, override_vars>>

\* Time passes between requests.
tick ==
    /\ request = None
    /\ now' \in {t \in ClockInstants : t > now}
    /\ UNCHANGED <<config, SECRET, request, auth, response, once, thread_vars, logged_out, run_vars, override_vars>>

\* The server when it has started: AppContext::new loaded the configuration,
\* SECRET is empty.
InitServer(configs) ==
    /\ config \in configs
    /\ SECRET = None
    /\ now = 0
    /\ request = None
    /\ auth = None
    /\ response = None
    /\ logged_out = FALSE
    /\ once = "incomplete"
    /\ pc = [t \in Threads |-> "idle"]
    /\ seed = [t \in Threads |-> None]
    /\ path = [t \in Threads |-> "none"]
    /\ returned = [t \in Threads |-> {}]
    /\ generated = 0

InitAuth == InitServer(Configs)

NextAuth ==
    \/ /\ request = None
       /\ \E req \in Requests(config, now), os_rng_ok \in BOOLEAN, rng \in RngDraws :
             from_request(req, os_rng_ok, rng)
    \/ login_route
    \/ logout_route
    \/ error_response
    \/ finish
    \/ tick

-----------------------------------------------------------------------------
(* models/profile_overrides.rs *)

\* The ids the sequence of the table gives out.
OverrideIds == 1..MaxOverrides

\* ProfileOverrides::create. db_ok: whether the INSERT succeeds. The statement
\* has no RETURNING clause, so fetch_one finds no row and returns
\* sqlx::Error::RowNotFound after the row was inserted: no value is returned.
ProfileOverrides_create(db_ok) ==
    /\ serial \in OverrideIds
    /\ IF db_ok
       THEN /\ profile_overrides' = profile_overrides \cup {serial}
            /\ serial' = serial + 1
            /\ overrides_call' = Some([op |-> "create", id |-> serial, executed |-> TRUE,
                                       rows_affected |-> 1, returned |-> Err("QueryError")])
       ELSE /\ UNCHANGED <<profile_overrides, serial>>
            /\ overrides_call' = Some([op |-> "create", id |-> serial, executed |-> FALSE,
                                       rows_affected |-> 0, returned |-> Err("QueryError")])
    /\ UNCHANGED <<instances, run_vars, auth_vars>>

\* ProfileOverrides::get: fetch_optional of the row with this id; the caller
\* holds the value it returns. db_ok: whether the SELECT succeeds.
ProfileOverrides_get(id, db_ok) ==
    /\ instances[id] < MaxCopies
    /\ IF db_ok /\ id \in profile_overrides
       THEN /\ instances' = [instances EXCEPT ![id] = @ + 1]
            /\ overrides_call' = Some([op |-> "get", id |-> id, executed |-> TRUE,
                                       rows_affected |-> 0, returned |-> Ok(Some(id))])
       ELSE /\ UNCHANGED instances
            /\ overrides_call' = Some([op |-> "get", id |-> id, executed |-> db_ok,
                                       rows_affected |-> 0,
                                       returned |-> IF db_ok THEN Ok(None)
                                                    ELSE Err("QueryError")])
    /\ UNCHANGED <<profile_overrides, serial, run_vars, auth_vars>>

\* ProfileOverrides::delete, lines 173-177: what is returned once the DELETE
\* was executed.
delete_returns(rows_affected) ==
    IF rows_affected > 0 THEN Ok(None) ELSE Ok(Some("()"))

\* ProfileOverrides::delete, on a value the caller holds, which it consumes.
\* db_ok: whether the DELETE succeeds.
delete(id, db_ok) ==
    /\ instances[id] > 0
    /\ instances' = [instances EXCEPT ![id] = @ - 1]
    /\ IF db_ok
       THEN LET rows_affected == IF id \in profile_overrides THEN 1 ELSE 0
            IN  /\ profile_overrides' = profile_overrides \ {id}
                /\ overrides_call' = Some([op |-> "delete", id |-> id, executed |-> TRUE,
                                           rows_affected |-> rows_affected,
                                           returned |-> delete_returns(rows_affected)])
       ELSE \* .await? returns Err(ProfileOverridesError::QueryError)
            /\ UNCHANGED profile_overrides
            /\ overrides_call' = Some([op |-> "delete", id |-> id, executed |-> FALSE,
                                       rows_affected |-> 0, returned |-> Err("QueryError")])
    /\ UNCHANGED <<serial, run_vars, auth_vars>>

\* The table when the server starts, no value being held.
InitOverrides ==
    /\ profile_overrides = {}
    /\ serial = 1
    /\ instances = [id \in OverrideIds |-> 0]
    /\ overrides_call = None

NextOverrides ==
    \/ \E db_ok \in BOOLEAN : ProfileOverrides_create(db_ok)
    \/ \E id \in OverrideIds, db_ok \in BOOLEAN : ProfileOverrides_get(id, db_ok)
    \/ \E id \in OverrideIds, db_ok \in BOOLEAN : delete(id, db_ok)

-----------------------------------------------------------------------------
(* Specifications *)

\* The server handling requests, beside a created run no call is made on.
Init ==
    /\ InitAuth
    /\ InitRun
    /\ run = created_run
    /\ InitOverrides

Spec == Init /\ [][NextAuth]_vars

\* The calls on one run, beside a server no request is sent to.
InitRunOnly ==
    /\ InitRun
    /\ InitAuth
    /\ config.admin_password = <<98>>
    /\ InitOverrides

SpecRun == InitRunOnly /\ [][NextRun]_vars

\* The threads of a started server calling get_jwt_secret, beside a created
\* run no call is made on; no request is followed further than this call.
InitSecret ==
    /\ Init
    /\ config.admin_password = <<98>>

SpecSecret == InitSecret /\ [][NextSecret]_vars

\* The server handling requests under a configuration with a colon in the
\* password or in the email.
InitColon ==
    /\ InitServer(ColonConfigs)
    /\ InitRun
    /\ run = created_run
    /\ InitOverrides

SpecColon == InitColon /\ [][NextAuth]_vars

\* The calls on the overrides of one profile, beside a server no request is
\* sent to and a created run no call is made on.
InitOverridesOnly ==
    /\ Init
    /\ config.admin_password = <<98>>

SpecOverrides == InitOverridesOnly /\ [][NextOverrides]_vars

-----------------------------------------------------------------------------
(* The run lifecycle: claims C1 - C8, checked under SpecRun *)

\* The states the ordered table gives a successor.
NonTerminal == RunState \ {"Error", "Done"}

\* The ordered table of the specification, section 3.
StageOrder == <<"Idling", "GeneratingQuestion", "GeneratingAnswer",
                "RenderingVoice", "RenderingSubtitles", "DownloadingBackground",
                "ComposingVideo", "Uploading", "Done">>

\* A step that is a call of `name`.
Calls(name) == calls' = calls + 1 /\ op' = name

\* C1: Done and Error are absorbing: once current_state is Done or Error,
\* no update_state or set_error call gives it another value.
C1_Absorbing ==
    [][run.current_state \in {"Done", "Error"}
         => run'.current_state = run.current_state]_vars

\* C1 witness: both methods were called on a run that was Done, update_state
\* returned Ok, and the run is still Done.
C1_Witness ==
    /\ calls >= 2
    /\ op = "update_state"
    /\ result = "Ok"
    /\ before.current_state = "Done"
    /\ before.error # None
    /\ run.current_state = "Done"

\* C2 as claimed: update_state on a run whose current_state is Done returns
\* FrozenState and leaves the run unchanged (so the ninth advance of a run
\* that went from Idling to Done in eight fails).
C2_DoneRejectsAdvance ==
    (op = "update_state" /\ before.current_state = "Done")
        => (result = "FrozenState" /\ run = before)

\* C3 as claimed: a set_error(message) that returns Ok on a run in a
\* non-terminal state leaves current_state = Error and error = Some(message).
C3_FailSetsError ==
    (op = "set_error" /\ result = "Ok" /\ before.current_state \in NonTerminal)
        => (run.current_state = "Error" /\ run.error = message)

\* C4 as claimed: once a set_error has returned Ok, every later set_error
\* returns FrozenState and error stays the first message.
C4_FirstErrorWins ==
    [][(first_error # None /\ Calls("set_error"))
         => (result' = "FrozenState" /\ run'.error = first_error)]_vars

\* C5 as claimed: once a set_error has returned Ok, every later update_state
\* returns FrozenState.
C5_FailedRejectsAdvance ==
    [][(first_error # None /\ Calls("update_state"))
         => result' = "FrozenState"]_vars

\* C6: update_state on a run whose current_state is Error returns
\* FrozenState, issues no UPDATE, and changes neither the run nor its row.
C6_ErrorRejectsAdvance ==
    [][(run.current_state = "Error" /\ Calls("update_state"))
         => (/\ result' = "FrozenState"
             /\ query' = "none"
             /\ run' = run
             /\ row' = row)]_vars

\* C6 witness: update_state was called on a run in the error state.
C6_Witness ==
    /\ op = "update_state"
    /\ before.current_state = "Error"
    /\ before.error # None
    /\ result = "FrozenState"

\* C7: an update_state that returns Ok on a non-terminal state S sets
\* current_state to the entry after S in the ordered table, and a created run
\* on which k <= 8 update_state calls, and nothing else, returned Ok is at
\* entry k + 1 of the table: at Done after eight.
C7_FixedSuccessor ==
    /\ \A i \in 1..8 :
          (op = "update_state" /\ result = "Ok" /\ before.current_state = StageOrder[i])
              => run.current_state = StageOrder[i + 1]
    /\ (initial = created_run /\ only_advances /\ advances <= 8)
          => run.current_state = StageOrder[advances + 1]

\* C7 witness: eight update_state calls took a created run to Done.
C7_Witness ==
    /\ initial = created_run
    /\ only_advances
    /\ advances = 8
    /\ before.current_state = "Uploading"
    /\ run.current_state = "Done"

-----------------------------------------------------------------------------
(* The authentication gateway: claims C9 - C10, checked under Spec *)

\* The request in flight carries this Authorization header, and the
\* extractor has answered.
Answered(header) ==
    /\ request # None
    /\ auth # None
    /\ request[1].authorization = Some(header)

\* The header "Basic " followed by base64(credentials).
BasicHeader(credentials) == Plain(BASIC_PREFIX \o b64_encode(credentials))

\* The extractor answered Authenticated, with a token that was signed under
\* the process's secret and carries these claims.
IssuedWith(claims) ==
    /\ auth[1].tag = "Ok"
    /\ auth[1].val.token # None
    /\ SECRET # None
    /\ auth[1].val.token[1].text = <<>>
    /\ auth[1].val.token[1].jwt # None
    /\ auth[1].val.token[1].jwt[1].claims = claims
    /\ auth[1].val.token[1].jwt[1].mac = hmac("HS256", claims, SECRET[1])

\* C9 as claimed: a request whose Authorization header is "Basic " followed
\* by base64(admin email:admin password) yields Authenticated, with a token
\* whose claims are the admin email and an expiry of now + 10800 seconds.
C9_AsClaimed ==
    Answered(BasicHeader(admin_credentials(config)))
        => IssuedWith([email |-> config.admin_email, exp |-> now + 10800])

\* C9 as amended: such a request yields Authenticated with a token of those
\* claims, signed under the process's secret, unless the operating system's
\* random source fails, and then it yields the JwtSecret error.
C9_MatchIssuesToken ==
    Answered(BasicHeader(admin_credentials(config)))
        => \/ IssuedWith([email |-> config.admin_email, exp |-> now + 10800])
           \/ auth[1] = Err("JwtSecret")

\* C9 witness: the administrator's credentials were sent at a later instant
\* and a token was issued.
C9_Witness ==
    /\ Answered(BasicHeader(admin_credentials(config)))
    /\ now > 0
    /\ auth[1].tag = "Ok"
    /\ auth[1].val.token # None

\* The (email, password) pairs that "email:password" is the text of, the
\* email holding no colon.
PairsOf(text) ==
    {<<SubSeq(text, 1, i - 1), SubSeq(text, i + 1, Len(text))>> :
        i \in {j \in 1..Len(text) :
                 text[j] = COLON /\ \A k \in 1..(j - 1) : text[k] # COLON}}

\* The credentials the request in flight submits: the bytes its Basic header
\* is the base64 of; None when it has no such header.
SubmittedCredentials ==
    IF request = None \/ auth = None THEN None
    ELSE IF request[1].authorization = None THEN None
    ELSE IF request[1].authorization[1].jwt # None THEN None
    ELSE IF strip_prefix(request[1].authorization[1].text, BASIC_PREFIX) = None THEN None
    ELSE b64_decode(strip_prefix(request[1].authorization[1].text, BASIC_PREFIX)[1])

-----------------------------------------------------------------------------
(* The authentication gateway: claims C11 - C20 *)

\* The string the request in flight presents as a bearer token: what follows
\* "Bearer " in its Authorization header, or its cookie when it has no
\* Authorization header; None when it presents none.
PresentedBearer ==
    IF request = None \/ auth = None THEN None
    ELSE IF request[1].authorization # None
         THEN str_strip_prefix(request[1].authorization[1], BEARER_PREFIX)
         ELSE request[1].cookie

\* The request in flight presents a token as a bearer token.
PresentsToken ==
    /\ PresentedBearer # None
    /\ PresentedBearer[1].text = <<>>
    /\ PresentedBearer[1].jwt # None

\* The token it presents.
PresentedToken == PresentedBearer[1].jwt[1]

\* The extractor answered Authenticated.
Accepted == auth[1].tag = "Ok" /\ auth[1].val.token # None

\* C11 as claimed: a bearer token whose expiry is less than or equal to the
\* current time is never answered Authenticated, whatever its signature, also
\* at the instant now = expiry: a token issued at t is not accepted at any
\* time >= t + 3 hours.
C11_ExpiredRejected ==
    (PresentsToken /\ PresentedToken.claims.exp <= now) => ~Accepted

\* The token the request in flight presents is one this process issues: its
\* claims are the administrator's email and an expiry three hours after an
\* instant of the clock, and it is signed under the process's secret.
IssuedHere ==
    /\ PresentsToken
    /\ SECRET # None
    /\ PresentedToken.alg = "HS256"
    /\ PresentedToken.claims.email = config.admin_email
    /\ PresentedToken.claims.exp - auth_expiration \in ClockInstants
    /\ PresentedToken.mac = hmac("HS256", PresentedToken.claims, SECRET[1])

\* C12 as claimed: a token a Basic authentication of this process returned
\* at time t, presented as a bearer token, in the header or in the cookie, at
\* a time t' with t <= t' < t + 3 hours, is answered Authenticated, and
\* carries the admin email and the expiry t + 3 hours.
C12_RoundTrip ==
    (/\ IssuedHere
     /\ PresentedToken.claims.exp - auth_expiration <= now
     /\ now < PresentedToken.claims.exp)
        => (/\ Accepted
            /\ auth[1].val.token[1].jwt[1].claims.email = config.admin_email
            /\ auth[1].val.token[1].jwt[1].claims.exp \in
                  {t + 3 * 3600 : t \in {u \in ClockInstants : u <= now}})

\* The request in flight has a Basic header: what follows "Basic ", or None.
BasicPresented ==
    IF request = None \/ auth = None THEN None
    ELSE IF request[1].authorization = None THEN None
    ELSE str_strip_prefix(request[1].authorization[1], BASIC_PREFIX)

\* C13: when a bearer check succeeds, the extractor answers Authenticated
\* with the very string that was presented (what follows "Bearer " in the
\* header, or the cookie's value): no token is issued anew, so the expiry of
\* the token is the one it had.
C13_PassThrough ==
    /\ (PresentedBearer # None /\ Accepted)
          => auth[1].val.token[1] = PresentedBearer[1]
    /\ (request # None /\ auth # None /\ BasicPresented = None /\ Accepted)
          => auth[1].val.token \in
                {str_strip_prefix(request[1].authorization[1], BEARER_PREFIX) :
                    x \in {y \in {request[1].authorization} : y # None}}
                \cup {request[1].cookie}

\* C13 witness: a token issued at the first instant was presented later,
\* before its expiry, and the answer carries it with the expiry it had.
C13_Witness ==
    /\ IssuedHere
    /\ now > 0
    /\ PresentedToken.claims.exp = auth_expiration
    /\ Accepted
    /\ auth[1].val.token[1].jwt[1].claims.exp < now + auth_expiration

\* The token the request in flight presents is not signed under the
\* process's secret: it was signed under another key, or its claims were
\* altered after it was signed, or the process has no secret.
NotSignedHere ==
    /\ PresentsToken
    /\ \/ SECRET = None
       \/ PresentedToken.mac #
             hmac(PresentedToken.alg, PresentedToken.claims, SECRET[1])

\* C14 as claimed: a bearer token signed with another secret than the
\* process's, or altered after signing, is answered Unauthenticated, and
\* never with an error.
C14_AsClaimed == NotSignedHere => auth[1] = Ok(unauthenticated)

\* C14 as amended: such a token is answered Unauthenticated, unless the
\* operating system's random source fails while get_jwt_secret runs, and then
\* the answer is the JwtSecret error; it is never answered Authenticated.
C14_ForgedRejected ==
    NotSignedHere => auth[1] \in {Ok(unauthenticated), Err("JwtSecret")}

\* C14 witness: an unexpired token with the administrator's email, signed
\* under a key that is not the secret the process holds, and one whose expiry
\* was altered after signing, were answered Unauthenticated.
C14_Witness ==
    /\ NotSignedHere
    /\ SECRET # None
    /\ PresentedToken.alg = "HS256"
    /\ PresentedToken.claims.email = config.admin_email
    /\ PresentedToken.claims.exp > now
    /\ \/ PresentedToken.mac.key # SECRET[1]
       \/ PresentedToken.mac.claims # PresentedToken.claims
    /\ auth[1] = Ok(unauthenticated)

\* C15 as claimed: a bearer token signed under the process's secret and
\* unexpired, whose email is not the configured admin email, is answered
\* Unauthenticated.
C15_OtherEmailRejected ==
    (/\ PresentsToken
     /\ SECRET # None
     /\ PresentedToken.alg = "HS256"
     /\ PresentedToken.mac = hmac("HS256", PresentedToken.claims, SECRET[1])
     /\ PresentedToken.claims.exp > now
     /\ PresentedToken.claims.email # config.admin_email)
        => auth[1] = Ok(unauthenticated)

\* The bytes 0xC3 ':' 'b': a two-byte sequence cut short, which is no UTF-8.
CutShort == <<195, COLON, 98>>

\* The request in flight has a Basic header with ill-formed credentials:
\* what follows "Basic " is not base64 (a character outside the alphabet,
\* padding missing, misplaced, or after non-zero bits), or is the base64 of
\* bytes that are no text (a byte 0xFF, a sequence cut short), or of a text
\* that holds no ':'.
IllFormedBasic ==
    /\ BasicPresented # None
    /\ BasicPresented[1].jwt = None
    /\ \/ BasicPresented[1].text \in
             NotBase64 \cup {unpadded(b64_encode(admin_credentials(config)))}
       \/ LET submitted == SubmittedCredentials IN
          /\ submitted # None
          /\ \/ submitted[1] = CutShort
             \/ \E i \in 1..Len(submitted[1]) : submitted[1][i] = 255
             \/ \A i \in 1..Len(submitted[1]) : submitted[1][i] # COLON

\* The request in flight carries no credentials: no Authorization header and
\* no cookie.
NoCredentials ==
    /\ request # None
    /\ auth # None
    /\ request[1].authorization = None
    /\ request[1].cookie = None

InfrastructureErrors ==
    {"MissingContext", "JwtSecret", "JwtExpiration", "JwtEncoding", "InvalidCast"}

\* The credentials of the request in flight are missing, malformed, wrong,
\* expired or tampered with: it has neither header nor cookie; or a Basic
\* header that is not the base64 of the administrator's email:password; or
\* it presents as bearer token a string that is no token, a token whose
\* expiry is not after the current time, or one not signed under the
\* process's secret.
BadCredentials ==
    \/ NoCredentials
    \/ /\ BasicPresented # None
       /\ BasicPresented[1] # Plain(b64_encode(admin_credentials(config)))
    \/ /\ PresentedBearer # None
       /\ \/ ~PresentsToken
          \/ PresentedToken.claims.exp <= now
          \/ NotSignedHere

\* C17 as claimed: the extractor answers with an error only for an
\* infrastructure failure, and answers every request whose credentials are
\* missing, malformed, wrong, expired or tampered with, when no
\* infrastructure failure occurs, with the one value Unauthenticated.
C17_ErrorClasses ==
    (request # None /\ auth # None) =>
        /\ auth[1].tag = "Err" => auth[1].val \in InfrastructureErrors
        /\ BadCredentials => \/ auth[1] = Ok(unauthenticated)
                             \/ auth[1].tag = "Err"

\* The header value starts with "Basic " or with "Bearer ".
StartsWithScheme(header) ==
    \/ strip_prefix(header.text, BASIC_PREFIX) # None
    \/ strip_prefix(header.text, BEARER_PREFIX) # None

\* A step in which the extractor answers a request.
Extracts == request = None /\ request' # None

\* In this step the extractor answers as the branch of the header's scheme
\* answers what follows the scheme in the header, for some outcome of the
\* random source: the cookie has no part in it.
ByHeaderAlone ==
    \E os_rng_ok \in BOOLEAN, rng \in RngDraws :
        LET header == request'[1].authorization[1]
            basic == strip_prefix(header.text, BASIC_PREFIX)
            bearer == strip_prefix(header.text, BEARER_PREFIX)
            by_header ==
                IF basic # None
                THEN try_authenticate_basic(Str(basic[1], header.jwt),
                         config.admin_email, config.admin_password,
                         SECRET, now, os_rng_ok, rng)
                ELSE try_authenticate_bearer(Str(bearer[1], header.jwt),
                         config.admin_email, SECRET, now, os_rng_ok, rng)
        IN  auth' = Some(by_header.ret) /\ SECRET' = by_header.secret

\* C18 as claimed: when the value of the Authorization header starts with
\* "Basic " or "Bearer ", the answer is the one the matching branch gives for
\* the header, and the cookie is not consulted.
C18_AsClaimed ==
    [][(/\ Extracts
        /\ request'[1].authorization # None
        /\ StartsWithScheme(request'[1].authorization[1]))
          => ByHeaderAlone]_vars

\* C18 as amended: when the value of the Authorization header is visible
\* ASCII and starts with "Basic " or "Bearer ", the answer is the one the
\* matching branch gives for the header, and the cookie is not consulted,
\* also when the header's credentials are rejected and the cookie holds a
\* valid token.
C18_HeaderPrecedence ==
    [][(/\ Extracts
        /\ request'[1].authorization # None
        /\ to_str_ok(request'[1].authorization[1].text)
        /\ StartsWithScheme(request'[1].authorization[1]))
          => ByHeaderAlone]_vars

\* The cookie of the request in flight holds a token the bearer check
\* accepts: signed under the process's secret, with the admin email, and not
\* expired.
CookieValid ==
    /\ request # None
    /\ auth # None
    /\ request[1].cookie # None
    /\ request[1].cookie[1].jwt # None
    /\ SECRET # None
    /\ request[1].cookie[1].jwt[1].alg = "HS256"
    /\ request[1].cookie[1].jwt[1].claims.email = config.admin_email
    /\ request[1].cookie[1].jwt[1].claims.exp > now
    /\ request[1].cookie[1].jwt[1].mac =
          hmac("HS256", request[1].cookie[1].jwt[1].claims, SECRET[1])

\* C18 witness: a request with a valid token in the cookie and a bearer
\* header that holds no token was answered Unauthenticated.
C18_Witness ==
    /\ CookieValid
    /\ request[1].authorization # None
    /\ to_str_ok(request[1].authorization[1].text)
    /\ request[1].authorization[1].jwt = None
    /\ strip_prefix(request[1].authorization[1].text, BEARER_PREFIX) # None
    /\ auth[1] = Ok(unauthenticated)

\* C19 as claimed: the cookie is used as credential material only when the
\* request has no Authorization header: a request whose header is present
\* and starts with neither "Basic " nor "Bearer " is answered
\* Unauthenticated, whatever its cookie holds.
C19_AsClaimed ==
    (/\ request # None
     /\ auth # None
     /\ request[1].authorization # None
     /\ ~StartsWithScheme(request[1].authorization[1]))
        => auth[1] = Ok(unauthenticated)

\* In this step the extractor answers as the bearer check answers the
\* cookie, for some outcome of the random source, and Unauthenticated when
\* the request has no cookie.
ByCookie ==
    IF request'[1].cookie = None
    THEN auth' = Some(Ok(unauthenticated)) /\ SECRET' = SECRET
    ELSE \E os_rng_ok \in BOOLEAN, rng \in RngDraws :
            LET by_cookie == try_authenticate_bearer(request'[1].cookie[1],
                                 config.admin_email, SECRET, now, os_rng_ok, rng)
            IN  auth' = Some(by_cookie.ret) /\ SECRET' = by_cookie.secret

\* C19 as amended: the cookie is used as credential material when the
\* request has no Authorization header, or one whose value is not visible
\* ASCII or starts with neither "Basic " nor "Bearer ": such a request gets
\* the answer of the bearer check of its cookie, and Unauthenticated when it
\* has no cookie.
C19_CookieWithoutScheme ==
    [][(/\ Extracts
        /\ \/ request'[1].authorization = None
           \/ ~to_str_ok(request'[1].authorization[1].text)
           \/ ~StartsWithScheme(request'[1].authorization[1]))
          => ByCookie]_vars

\* C19 witness: a request whose Authorization header starts with neither
\* "Basic " nor "Bearer ", and whose cookie holds a valid token, was
\* answered Authenticated with the cookie's token.
C19_Witness ==
    /\ CookieValid
    /\ request[1].authorization # None
    /\ to_str_ok(request[1].authorization[1].text)
    /\ ~StartsWithScheme(request[1].authorization[1])
    /\ auth[1] = Ok(authenticated(request[1].cookie[1]))

\* The values the calls of get_jwt_secret have returned with Ok.
SecretsReturned ==
    {r.val : r \in {x \in UNION {returned[t] : t \in Threads} : x.tag = "Ok"}}

\* C20: under any interleaving of the threads' calls of get_jwt_secret, first
\* calls that race included, the closure that generates the secret runs at
\* most once, and exactly once when a call has returned Ok; every call that
\* returned Ok returned the same string of 32 characters, the value SECRET
\* holds: no two calls observe different secrets.
C20_SingleInit ==
    /\ generated <= 1
    /\ Cardinality(SecretsReturned) <= 1
    /\ SecretsReturned # {} =>
          /\ generated = 1
          /\ SECRET # None
          /\ SecretsReturned = {SECRET[1]}
          /\ Len(SECRET[1]) = 32
    /\ \A t \in Threads :
          returned[t] \subseteq {Err("JwtSecret")} \cup {Ok(v) : v \in SecretsReturned}

\* C20 witness: two first calls raced: one thread ran the closure, another,
\* blocked meanwhile, returned after it, and both returned the same value.
C20_Witness ==
    \E t1, t2 \in Threads :
        /\ t1 # t2
        /\ path[t1] = "closure"
        /\ path[t2] = "wait"
        /\ SECRET # None
        /\ Ok(SECRET[1]) \in returned[t1]
        /\ Ok(SECRET[1]) \in returned[t2]

-----------------------------------------------------------------------------
(* The routes and the gateway as a whole: claims C21 - C26, C30 *)

\* The route `name` has answered the request in flight, whose extractor
\* returned Ok.
Responded(name) ==
    /\ request # None
    /\ auth # None
    /\ response # None
    /\ request[1].route = name
    /\ auth[1].tag = "Ok"

\* C21: the login route answers 204 and sets the cookie `authentication` to
\* the extractor's token, with Path=/, HttpOnly and Max-Age = 10800 seconds,
\* exactly when the extractor's result is Authenticated; when it is
\* Unauthenticated the route answers 401 and sets no cookie.
C21_LoginCookie ==
    Responded("login") =>
        /\ Accepted <=> response[1].status = 204
        /\ Accepted <=> response[1].cookie # None
        /\ Accepted =>
              /\ response[1].cookie[1].name = "authentication"
              /\ response[1].cookie[1].value = auth[1].val.token[1]
              /\ response[1].cookie[1].path = Some("/")
              /\ response[1].cookie[1].http_only
              /\ response[1].cookie[1].max_age = Some(10800)
        /\ auth[1] = Ok(unauthenticated) =>
              response[1] = [status |-> 401, cookie |-> None]

\* C21 witness: a login with the administrator's credentials was answered
\* 204 with the cookie that holds the token just issued.
C21_Witness ==
    /\ Responded("login")
    /\ BasicPresented # None
    /\ Accepted
    /\ response[1].status = 204
    /\ response[1].cookie[1].value.jwt[1].claims.exp = now + 10800

\* C22: the logout route answers 204 with a cookie `authentication` that is
\* a removal (empty value, expiring at once) when the request is
\* authenticated, and answers 401 with no cookie when it is not.
C22_LogoutCookie ==
    Responded("logout") =>
        /\ Accepted =>
              /\ response[1].status = 204
              /\ response[1].cookie # None
              /\ response[1].cookie[1].name = "authentication"
              /\ response[1].cookie[1].value = Plain(<<>>)
              /\ response[1].cookie[1].max_age = Some(0)
        /\ ~Accepted => response[1] = [status |-> 401, cookie |-> None]

\* C22 witness: a logout that presented an accepted token was answered 204
\* with the removal cookie.
C22_Witness ==
    /\ Responded("logout")
    /\ PresentsToken
    /\ Accepted
    /\ response[1].status = 204
    /\ response[1].cookie[1].max_age = Some(0)

\* C24: the decoded credentials are split at their first colon only: they
\* pass exactly when the text before the first colon is the administrator's
\* email and all the text after it, further colons included, is the
\* administrator's password; so a password with colons in it authenticates,
\* and when the administrator's email holds a colon no credentials do.
C24_FirstColon ==
    (SubmittedCredentials # None /\ auth[1].tag = "Ok") =>
        LET t == SubmittedCredentials[1]
            colons == {j \in 1..Len(t) : t[j] = COLON}
            first == CHOOSE j \in colons : \A k \in colons : j <= k
        IN  /\ Accepted <=>
                  /\ colons # {}
                  /\ SubSeq(t, 1, first - 1) = config.admin_email
                  /\ SubSeq(t, first + 1, Len(t)) = config.admin_password
            /\ (\E j \in 1..Len(config.admin_email) : config.admin_email[j] = COLON)
                  => ~Accepted

\* C24 witness: under the password "b:a", the credentials "a@b:b:a" were
\* answered Authenticated.
C24_Witness ==
    /\ SubmittedCredentials # None
    /\ \E j \in 1..Len(config.admin_password) : config.admin_password[j] = COLON
    /\ SubmittedCredentials[1] = admin_credentials(config)
    /\ Accepted

\* C25 as claimed: the gateway keeps nothing between requests and revokes
\* nothing: after a logout was answered, a token this process issued,
\* presented before its expiry, is still answered Authenticated; the answer
\* depends on the request, the admin identity, the secret and the clock only.
C25_NoRevocation ==
    (/\ logged_out
     /\ IssuedHere
     /\ PresentedToken.claims.exp - auth_expiration <= now
     /\ PresentedToken.claims.exp > now) => Accepted

\* The tokens the request in flight carries: the one that follows "Bearer "
\* in its Authorization header and the one in its cookie.
CarriedTokens ==
    (IF request[1].authorization = None THEN {}
     ELSE LET rest == str_strip_prefix(request[1].authorization[1], BEARER_PREFIX)
          IN  IF rest # None /\ rest[1].text = <<>> /\ rest[1].jwt # None
              THEN {rest[1].jwt[1]} ELSE {})
    \cup (IF request[1].cookie # None /\ request[1].cookie[1].text = <<>>
             /\ request[1].cookie[1].jwt # None
          THEN {request[1].cookie[1].jwt[1]} ELSE {})

\* C26 as claimed: the gateway answers Authenticated only if the request
\* carried Basic credentials equal to the administrator's email and password,
\* or a bearer token, in the header or in the cookie, that is signed with the
\* process's secret, is unexpired and carries the administrator's email.
C26_OnlyIf ==
    (request # None /\ auth # None /\ Accepted) =>
        \/ /\ SubmittedCredentials # None
           /\ SubmittedCredentials[1] = admin_credentials(config)
        \/ \E token \in CarriedTokens :
              /\ SECRET # None
              /\ token.mac = hmac(token.alg, token.claims, SECRET[1])
              /\ token.claims.exp > now
              /\ token.claims.email = config.admin_email

\* C30 as claimed: once SECRET is initialised, get_jwt_secret returns the
\* cached value whatever the random source does: a request handled after the
\* initialisation is never answered with the JwtSecret error, be it one that
\* verifies a bearer token or one that issues a token.
C30_CachedSecret ==
    [][(SECRET # None /\ auth = None /\ auth' # None)
          => auth'[1] # Err("JwtSecret")]_vars

-----------------------------------------------------------------------------
(* The run and its persisted row: claims C27 - C29, checked under SpecRun *)

\* C27 as claimed: when the UPDATE of update_state or of set_error fails, the
\* call returns an error and the run in memory (current_state and error) is
\* as it was before the call, so that it does not diverge from its row.
C27_WriteFailure ==
    query = "failed" =>
        /\ result = "QueryError"
        /\ run = before

\* C28 as claimed: after a successful set_error the row of the run has
\* current_state = Error and error = the message, so that a copy loaded with
\* Run::get is rejected with FrozenState by update_state and by set_error.
C28_PersistedFrozen ==
    (op = "set_error" /\ result = "Ok") =>
        /\ row.current_state = "Error"
        /\ row.error = message
        /\ update_state_frozen(row.current_state)
        /\ set_error_frozen(row.current_state)

\* C29 as claimed: in every state reached from a freshly created run by
\* update_state and set_error calls, error is Some(_) exactly when
\* current_state is Error.
C29_ErrorIffErrorState ==
    initial = created_run =>
        ((run.error # None) <=> (run.current_state = "Error"))

-----------------------------------------------------------------------------
(* The overrides of a profile: claim C23, checked under SpecOverrides *)

\* C23 as claimed: ProfileOverrides::delete returns Ok(Some(())) exactly
\* when the DELETE removed at least one row, and Ok(None) exactly when no row
\* was affected.
C23_DeleteReports ==
    (/\ overrides_call # None
     /\ overrides_call[1].op = "delete"
     /\ overrides_call[1].executed) =>
        /\ overrides_call[1].returned = Ok(Some("()"))
              <=> overrides_call[1].rows_affected > 0
        /\ overrides_call[1].returned = Ok(None)
              <=> overrides_call[1].rows_affected = 0

=============================================================================
